---- MODULE Spec2Model ----
(***************************************************************************)
(* Model of the page-specification resolver of app/pagespec.py:            *)
(* parse_pagespec and pages_to_keep.  A specification string is a          *)
(* sequence of one-character strings.  " " stands for any whitespace       *)
(* character, "x" for any character that is neither a digit, a comma, a    *)
(* hyphen, a plus sign nor whitespace.  Underscores and non-ASCII digits,   *)
(* which Python's int() also reads, are outside the alphabet.              *)
(***************************************************************************)
EXTENDS Integers, Sequences, FiniteSets, TLC

(* ---- bounds of the explored input space ---- *)
MaxLen == 4
MaxTotal == 3

Digits == {"0", "1", "2"}
Chars == Digits \cup {" ", ",", "-", "+", "x"}
Modes == {"extract", "delete", "rotate"}

Strings(n) == UNION {[1..k -> Chars] : k \in 0..n}

VARIABLES spec, total_pages, mode, outcome, pc, frames,
          response,
          rate_tracker, now, admitted, last, calls

(* the state of the HTTP layer and of the rate limiter *)
httpVars == <<response>>
rateVars == <<rate_tracker, now, admitted, last, calls>>

vars == <<spec, total_pages, mode, outcome, pc, frames, httpVars, rateVars>>

(* ---- string primitives of Python used by the parser ---- *)

SetMin(S) == CHOOSE x \in S : \A y \in S : x <= y
SetMax(S) == CHOOSE x \in S : \A y \in S : x >= y

(* str.strip(): drop leading and trailing whitespace *)
RECURSIVE strip(_)
strip(s) ==
    IF s = <<>> THEN s
    ELSE IF s[1] = " " THEN strip(Tail(s))
    ELSE IF s[Len(s)] = " " THEN strip(SubSeq(s, 1, Len(s) - 1))
    ELSE s

(* str.split(sep): the pieces between the separators, empty pieces kept *)
RECURSIVE split(_, _)
split(s, sep) ==
    IF \A k \in 1..Len(s) : s[k] # sep THEN <<s>>
    ELSE LET i == CHOOSE k \in 1..Len(s) : s[k] = sep /\ \A j \in 1..(k - 1) : s[j] # sep
         IN  <<SubSeq(s, 1, i - 1)>> \o split(SubSeq(s, i + 1, Len(s)), sep)

Contains(s, c) == \E i \in 1..Len(s) : s[i] = c

DigitVal(c) == CASE c = "0" -> 0 [] c = "1" -> 1 [] c = "2" -> 2 [] OTHER -> 0

Signs == {"+", "-"}

(* the text of s without surrounding whitespace and without its sign *)
Unsigned(s) ==
    LET t == strip(s)
    IN  IF t # <<>> /\ t[1] \in Signs THEN Tail(t) ELSE t

AllDigits(d) == d # <<>> /\ \A i \in 1..Len(d) : d[i] \in Digits

(* int(s) succeeds: after stripping, an optional sign and a non-empty run
   of digits *)
int_ok(s) == AllDigits(Unsigned(s))

(* the decimal value of a run of digits, leading zeros allowed *)
RECURSIVE DecVal(_)
DecVal(t) ==
    IF t = <<>> THEN 0
    ELSE 10 * DecVal(SubSeq(t, 1, Len(t) - 1)) + DigitVal(t[Len(t)])

SignOf(t) == IF t # <<>> /\ t[1] = "-" THEN 0 - 1 ELSE 1

(* int(s): the value of the digits, negated after a minus sign *)
int(s) == SignOf(strip(s)) * DecVal(Unsigned(s))

(* variant: the list in descending order *)
RECURSIVE sorted_descending(_)
sorted_descending(S) ==
    IF S = {} THEN <<>>
    ELSE LET m == SetMax(S) IN <<m>> \o sorted_descending(S \ {m})

(* sorted(pages): ascending list of the members of a set *)
RECURSIVE sorted(_)
sorted(S) ==
    IF S = {} THEN <<>>
    ELSE LET m == SetMin(S) IN <<m>> \o sorted(S \ {m})

(* ---- outcomes: a returned list or a raised exception ---- *)

NoOutcome == [kind |-> "none", rule |-> "", part |-> <<>>, a |-> 0, b |-> 0, pages |-> <<>>]
Returned(list) == [kind |-> "ok", rule |-> "", part |-> <<>>, a |-> 0, b |-> 0, pages |-> list]
PageSpecError(rule, part, a, b) ==
    [kind |-> "PageSpecError", rule |-> rule, part |-> part, a |-> a, b |-> b, pages |-> <<>>]
ValueError(m) ==
    [kind |-> "ValueError", rule |-> "invalid_mode", part |-> <<>>, a |-> 0, b |-> 0, pages |-> <<>>]

(* a loop state: the pages collected so far, or the exception that ended it *)
Going(pages) == [err |-> NoOutcome, pages |-> pages]
Raised(e) == [err |-> e, pages |-> {}]

(* variant: range(start, end), the end of the range left out *)
RECURSIVE range_loop_exclusive(_, _, _, _)
range_loop_exclusive(page, end, pages, total) ==
    IF page >= end THEN Going(pages)
    ELSE IF page > total THEN Raised(PageSpecError("exceeds", <<>>, page, total))
    ELSE range_loop_exclusive(page + 1, end, pages \cup {page}, total)

(* for page in range(start, end + 1): bound check, then pages.add(page) *)
RECURSIVE range_loop(_, _, _, _)
range_loop(page, end, pages, total) ==
    IF page > end THEN Going(pages)
    ELSE IF page > total THEN Raised(PageSpecError("exceeds", <<>>, page, total))
    ELSE range_loop(page + 1, end, pages \cup {page}, total)

(* the checks of a part containing "-" up to the range loop: the exception
   raised, or the bounds of the range *)
Bounds(start, end) == [err |-> NoOutcome, start |-> start, end |-> end]
BadRange(e) == [err |-> e, start |-> 0, end |-> 0]

(* variant: start > end is checked before the signs of the bounds *)
check_bounds_order_first(part, start, end) ==
    IF start > end
    THEN BadRange(PageSpecError("range_order", <<>>, start, end))
    ELSE IF start <= 0 \/ end <= 0
    THEN BadRange(PageSpecError("range_positive", part, 0, 0))
    ELSE Bounds(start, end)

(* start <= 0 or end <= 0, then start > end *)
check_bounds(part, start, end) ==
    IF start <= 0 \/ end <= 0
    THEN BadRange(PageSpecError("range_positive", part, 0, 0))
    ELSE IF start > end
    THEN BadRange(PageSpecError("range_order", <<>>, start, end))
    ELSE Bounds(start, end)

(* variant: the check for empty sides left out *)
check_sides_no_empty_check(part, start_str, end_str) ==
    IF ~int_ok(start_str) \/ ~int_ok(end_str)
    THEN BadRange(PageSpecError("range_numbers", part, 0, 0))
    ELSE check_bounds(part, int(start_str), int(end_str))

(* the try block: empty sides, then int() of both sides *)
check_sides(part, start_str, end_str) ==
    IF start_str = <<>> \/ end_str = <<>>
    THEN BadRange(PageSpecError("range_format", part, 0, 0))
    ELSE IF ~int_ok(start_str) \/ ~int_ok(end_str)
    THEN BadRange(PageSpecError("range_numbers", part, 0, 0))
    ELSE check_bounds(part, int(start_str), int(end_str))

(* len(range_parts) != 2, then the sides without their whitespace *)
check_range_parts(part, range_parts) ==
    IF Len(range_parts) # 2
    THEN BadRange(PageSpecError("range_format", part, 0, 0))
    ELSE check_sides(part, strip(range_parts[1]), strip(range_parts[2]))

range_bounds(part) == check_range_parts(part, split(part, "-"))

(* the range loop, unless a check has raised *)
expand_range(rb, pages, total) ==
    IF rb.err # NoOutcome THEN Raised(rb.err)
    ELSE range_loop(rb.start, rb.end, pages, total)

(* the branch of the loop body for a part containing "-" *)
range_part(part, pages, total) == expand_range(range_bounds(part), pages, total)

(* variant: the check against total_pages left out *)
add_page_unbounded(page, pages, total) ==
    IF page <= 0
    THEN Raised(PageSpecError("page_positive", <<>>, page, 0))
    ELSE Going(pages \cup {page})

(* page <= 0, page > total_pages, pages.add(page) *)
add_page(page, pages, total) ==
    IF page <= 0
    THEN Raised(PageSpecError("page_positive", <<>>, page, 0))
    ELSE IF page > total
    THEN Raised(PageSpecError("exceeds", <<>>, page, total))
    ELSE Going(pages \cup {page})

(* the branch of the loop body for a part without "-" *)
single_part(part, pages, total) ==
    IF ~int_ok(part)
    THEN Raised(PageSpecError("page_number", part, 0, 0))
    ELSE add_page(int(part), pages, total)

(* variant: empty parts are not skipped *)
stripped_part_no_skip(part, pages, total) ==
    IF Contains(part, "-") THEN range_part(part, pages, total)
    ELSE single_part(part, pages, total)

(* the body of the loop for a part already stripped *)
stripped_part(part, pages, total) ==
    IF part = <<>> THEN Going(pages)
    ELSE IF Contains(part, "-") THEN range_part(part, pages, total)
    ELSE single_part(part, pages, total)

(* variant: the part is not stripped *)
loop_body_no_strip(raw, pages, total) == stripped_part(raw, pages, total)

(* one iteration of "for part in parts" *)
loop_body(raw, pages, total) == stripped_part(strip(raw), pages, total)

RECURSIVE parts_loop(_, _, _, _)

(* after one iteration: the exception ends the loop, else the next part *)
next_part(parts, i, r, total) ==
    IF r.err # NoOutcome THEN r
    ELSE parts_loop(parts, i + 1, r.pages, total)

parts_loop(parts, i, pages, total) ==
    IF i > Len(parts) THEN Going(pages)
    ELSE next_part(parts, i, loop_body(parts[i], pages, total), total)

(* after the loop: "if not pages", then "return sorted(pages)" *)
parse_return(r) ==
    IF r.err # NoOutcome THEN r.err
    ELSE IF r.pages = {} THEN PageSpecError("no_pages", <<>>, 0, 0)
    ELSE Returned(sorted(r.pages))

parse_pagespec(s, total) ==
    IF strip(s) = <<>>
    THEN PageSpecError("empty", <<>>, 0, 0)
    ELSE parse_return(parts_loop(split(strip(s), ","), 1, {}, total))

SeqSet(list) == {list[i] : i \in 1..Len(list)}

Reverse(list) == [k \in 1..Len(list) |-> list[Len(list) + 1 - k]]

(* variant: the guard against an empty keep-list left out *)
delete_keep_no_guard(keep_pages) == Returned(sorted(keep_pages))

(* "if not keep_pages", then "return sorted(keep_pages)" *)
delete_keep(keep_pages) ==
    IF keep_pages = {}
    THEN PageSpecError("delete_all", <<>>, 0, 0)
    ELSE Returned(sorted(keep_pages))

(* variant: extract hands the list back in reverse *)
mode_branch_extract_reversed(specified_pages, total, m) ==
    IF m = "extract" THEN Returned(Reverse(specified_pages))
    ELSE IF m = "delete" THEN delete_keep((1..total) \ SeqSet(specified_pages))
    ELSE ValueError(m)

(* variant: an unknown mode is treated as extract *)
mode_branch_default_extract(specified_pages, total, m) ==
    IF m = "delete" THEN delete_keep((1..total) \ SeqSet(specified_pages))
    ELSE Returned(specified_pages)

(* the branches on mode, given the list parse_pagespec returned *)
mode_branch(specified_pages, total, m) ==
    IF m = "extract" THEN Returned(specified_pages)
    ELSE IF m = "delete" THEN delete_keep((1..total) \ SeqSet(specified_pages))
    ELSE ValueError(m)

(* an exception of parse_pagespec leaves pages_to_keep as it is *)
after_parse(parsed, total, m) ==
    IF parsed.kind # "ok" THEN parsed
    ELSE mode_branch(parsed.pages, total, m)

pages_to_keep(s, total, m) == after_parse(parse_pagespec(s, total), total, m)

(* ---- the HTTP layer before any request ---- *)

NoResponse == [exc |-> "none", status |-> 0, detail |-> NoOutcome]

(* ---- the rate limiter ---- *)

RATE_LIMIT == 30
RATE_WINDOW == 3600

Clients == {"a", "b"}

(* rate_tracker = defaultdict(list): no key yet *)
EmptyTracker == [c \in {} |-> <<>>]

(* rate_tracker[client_ip] of a defaultdict: the empty list for a new key *)
Tracked(tracker, c) == IF c \in DOMAIN tracker THEN tracker[c] ELSE <<>>

(* rate_tracker[client_ip] = ... *)
Store(tracker, c, list) ==
    IF c \in DOMAIN tracker THEN [tracker EXCEPT ![c] = list]
    ELSE tracker @@ (c :> list)

(* [t for t in rate_tracker[client_ip] if now - t < RATE_WINDOW] *)
clean_old(list, t_now) == SelectSeq(list, LAMBDA t : t_now - t < RATE_WINDOW)

(* variant: the limit is compared with > *)
limit_reached_off_by_one(list) == Len(list) > RATE_LIMIT

(* len(rate_tracker[client_ip]) >= RATE_LIMIT *)
limit_reached(list) == Len(list) >= RATE_LIMIT

(* return False, or append(now) and return True *)
admit(tracker, c, list, t_now) ==
    IF limit_reached(list)
    THEN [tracker |-> Store(tracker, c, list), result |-> FALSE]
    ELSE [tracker |-> Store(tracker, c, Append(list, t_now)), result |-> TRUE]

(* check_rate_limit(client_ip) with time() = t_now: the tracker it leaves
   and the value it returns *)
check_rate_limit(tracker, c, t_now) ==
    admit(tracker, c, clean_old(Tracked(tracker, c), t_now), t_now)

NoCall == [client |-> "none", result |-> TRUE, at |-> 0]

(* the rate limiter before any request; admitted is the history of the
   calls that returned True, per client, and last the latest call *)
RateIdle ==
    /\ rate_tracker = EmptyTracker
    /\ now = 0
    /\ admitted = [c \in Clients |-> <<>>]
    /\ last = NoCall
    /\ calls = 0

(* the bound on the calls of one behaviour, the steps of the clock between
   two calls, and the numbers of calls a client made at clock 0 before *)
MaxCalls == 3
Deltas == {0, 1, RATE_WINDOW - 1, RATE_WINDOW}
Backlogs == {0, RATE_LIMIT - 1, RATE_LIMIT}

(* the tracker after n calls of check_rate_limit for c at clock 0, as long
   as they return True *)
RECURSIVE Warm(_, _, _)
Warm(tracker, c, n) ==
    IF n = 0 \/ ~check_rate_limit(tracker, c, 0).result THEN tracker
    ELSE Warm(check_rate_limit(tracker, c, 0).tracker, c, n - 1)

RECURSIVE WarmAll(_, _, _)
WarmAll(tracker, todo, backlog) ==
    IF todo = {} THEN tracker
    ELSE LET c == CHOOSE x \in todo : TRUE
         IN  WarmAll(Warm(tracker, c, backlog[c]), todo \ {c}, backlog)

(* the server after each client made backlog[c] calls at clock 0, none of
   them over the limit *)
InitRate ==
    /\ spec = <<>>
    /\ total_pages = 0
    /\ mode = "none"
    /\ outcome = NoOutcome
    /\ pc = "limiter"
    /\ frames = <<>>
    /\ response = NoResponse
    /\ now = 0
    /\ last = NoCall
    /\ calls = 0
    /\ \E backlog \in [Clients -> Backlogs] :
        /\ rate_tracker = WarmAll(EmptyTracker, Clients, backlog)
        /\ admitted = [c \in Clients |-> [i \in 1..backlog[c] |-> 0]]

(* one call of check_rate_limit: the clock has not gone back *)
RateCall ==
    /\ pc = "limiter"
    /\ calls < MaxCalls
    /\ \E c \in Clients, d \in Deltas :
        /\ now' = now + d
        /\ rate_tracker' = check_rate_limit(rate_tracker, c, now + d).tracker
        /\ admitted' = IF check_rate_limit(rate_tracker, c, now + d).result
                       THEN [admitted EXCEPT ![c] = Append(@, now + d)]
                       ELSE admitted
        /\ last' = [client |-> c,
                    result |-> check_rate_limit(rate_tracker, c, now + d).result,
                    at |-> now + d]
    /\ calls' = calls + 1
    /\ UNCHANGED <<spec, total_pages, mode, outcome, pc, frames, httpVars>>

NextRate == RateCall

SpecRate == InitRate /\ [][NextRate]_vars

(* ---- the callers: one call of either function on arbitrary inputs ---- *)

Init ==
    /\ spec \in Strings(MaxLen)
    /\ total_pages \in 0..MaxTotal
    /\ mode = "none"
    /\ outcome = NoOutcome
    /\ pc = "idle"
    /\ frames = <<>>
    /\ response = NoResponse
    /\ RateIdle

CallParse ==
    /\ pc = "idle"
    /\ outcome' = parse_pagespec(spec, total_pages)
    /\ pc' = "parsed"
    /\ UNCHANGED <<spec, total_pages, mode, frames, httpVars, rateVars>>

CallKeep ==
    /\ pc = "idle"
    /\ \E m \in Modes :
        /\ mode' = m
        /\ outcome' = pages_to_keep(spec, total_pages, m)
    /\ pc' = "kept"
    /\ UNCHANGED <<spec, total_pages, frames, httpVars, rateVars>>

Next == CallParse \/ CallKeep

Spec == Init /\ [][Next]_vars

(* ---- the delete-pages and extract-pages endpoints ---- *)

(* what the PDF engine makes of the upload: it opens and saves, it does not
   open, or it opens and the new document cannot be assembled or saved *)
Uploads == {"opens", "broken", "unwritable"}
Operations == {"delete", "extract"}

PDFError(msg) ==
    [kind |-> "PDFError", rule |-> msg, part |-> <<>>, a |-> 0, b |-> 0, pages |-> <<>>]

(* variant: no "except PageSpecError: raise" before the catch-all *)
ops_handlers_no_reraise(kept, pdf) ==
    IF kept.kind # "ok" THEN PDFError("operation_failed")
    ELSE IF pdf = "unwritable" THEN PDFError("operation_failed")
    ELSE kept

(* the body of delete_pages / extract_pages after the keep-list, with the
   except clauses: PageSpecError is re-raised, anything else becomes PDFError *)
ops_handlers(kept, pdf) ==
    IF kept.kind = "PageSpecError" THEN kept
    ELSE IF kept.kind # "ok" THEN PDFError("operation_failed")
    ELSE IF pdf = "unwritable" THEN PDFError("operation_failed")
    ELSE kept

(* delete_pages (mode "delete") and extract_pages (mode "extract") *)
page_operation(s, total, m, pdf) ==
    IF pdf = "broken" THEN PDFError("invalid_pdf")
    ELSE ops_handlers(pages_to_keep(s, total, m), pdf)

HTTPException(status, detail) == [exc |-> "HTTPException", status |-> status, detail |-> detail]
StreamingResponse(result) == [exc |-> "none", status |-> 200, detail |-> result]

(* the inner try of the endpoint and its two except clauses *)
inner_handlers(result) ==
    IF result.kind = "PageSpecError" THEN HTTPException(400, result)
    ELSE IF result.kind = "PDFError" THEN HTTPException(422, result)
    ELSE StreamingResponse(result)

(* the outer try: HTTPException is re-raised, any other exception is a 500 *)
outer_handlers(r) ==
    IF r.exc \in {"none", "HTTPException"} THEN r
    ELSE HTTPException(500, PDFError("unexpected"))

endpoint(s, total, m, pdf) == outer_handlers(inner_handlers(page_operation(s, total, m, pdf)))

InitHttp ==
    /\ spec \in Strings(MaxLen)
    /\ total_pages \in 0..MaxTotal
    /\ mode = "none"
    /\ outcome = NoOutcome
    /\ pc = "request"
    /\ frames = <<>>
    /\ response = NoResponse
    /\ RateIdle

(* one request to /api/delete-pages or /api/extract-pages; outcome keeps the
   upload the request came with *)
Request ==
    /\ pc = "request"
    /\ \E m \in Operations, pdf \in Uploads :
        /\ mode' = m
        /\ outcome' = [NoOutcome EXCEPT !.rule = pdf]
        /\ response' = endpoint(spec, total_pages, m, pdf)
    /\ pc' = "responded"
    /\ UNCHANGED <<spec, total_pages, frames, rateVars>>

NextHttp == Request

SpecHttp == InitHttp /\ [][NextHttp]_vars

(* ---- several invocations running interleaved, statement by statement ---- *)

NProcs == 2
Procs == 1..NProcs

ConcSpecs == {<<"2", ",", "1">>, <<"1", "-", "2">>}
ConcTotals == {1, 2}
ConcCalls == {<<"parse", "none">>} \cup {<<"keep", m>> : m \in Modes}

(* the locals of one invocation: its arguments, its position, and the
   variables parts, pages, page of parse_pagespec *)
Frame(fn, s, total, m) ==
    [fn |-> fn, spec |-> s, total |-> total, mode |-> m, at |-> "start",
     parts |-> <<>>, i |-> 1, pages |-> {}, page |-> 0, end |-> 0,
     specified |-> <<>>, result |-> NoOutcome]

(* variant: pages is one set shared by all invocations *)
StorePagesShared(fr, p, pages) == [q \in DOMAIN fr |-> [fr[q] EXCEPT !.pages = pages]]

(* pages is a local of the invocation: a store reaches its own frame only *)
StorePages(fr, p, pages) == [fr EXCEPT ![p].pages = pages]

Raise(fr, p, e) == [fr EXCEPT ![p].at = "done", ![p].result = e]

InitConc ==
    /\ spec = <<>>
    /\ total_pages = 0
    /\ mode = "none"
    /\ outcome = NoOutcome
    /\ pc = "interleaved"
    /\ response = NoResponse
    /\ RateIdle
    /\ frames \in [Procs -> {Frame(c[1], s, t, c[2]) :
                                s \in ConcSpecs, t \in ConcTotals, c \in ConcCalls}]

(* the emptiness check, spec.strip(), pages = set(), spec.split(",") *)
ParseStart(p) ==
    /\ frames[p].at = "start"
    /\ frames' =
         IF strip(frames[p].spec) = <<>>
         THEN Raise(frames, p, PageSpecError("empty", <<>>, 0, 0))
         ELSE [StorePages(frames, p, {}) EXCEPT
                 ![p].parts = split(strip(frames[p].spec), ","),
                 ![p].i = 1,
                 ![p].at = "parts"]
    /\ UNCHANGED <<spec, total_pages, mode, outcome, pc, httpVars, rateVars>>

(* a range part whose checks are done: raise, or enter the range loop *)
EnterRange(fr, p, rb) ==
    IF rb.err # NoOutcome THEN Raise(fr, p, rb.err)
    ELSE [fr EXCEPT ![p].page = rb.start, ![p].end = rb.end, ![p].at = "range"]

(* a single page part: raise, or store pages and go to the next part *)
AfterSingle(fr, p, r) ==
    IF r.err # NoOutcome THEN Raise(fr, p, r.err)
    ELSE [StorePages(fr, p, r.pages) EXCEPT ![p].i = fr[p].i + 1]

(* the body of the loop for the stripped part of frame p *)
PartStep(fr, p, part) ==
    IF part = <<>> THEN [fr EXCEPT ![p].i = fr[p].i + 1]
    ELSE IF Contains(part, "-") THEN EnterRange(fr, p, range_bounds(part))
    ELSE AfterSingle(fr, p, single_part(part, fr[p].pages, fr[p].total))

(* the head of "for part in parts" and its body up to the range loop *)
ParseNextPart(p) ==
    /\ frames[p].at = "parts"
    /\ frames' =
         IF frames[p].i > Len(frames[p].parts)
         THEN [frames EXCEPT ![p].at = "end_parts"]
         ELSE PartStep(frames, p, strip(frames[p].parts[frames[p].i]))
    /\ UNCHANGED <<spec, total_pages, mode, outcome, pc, httpVars, rateVars>>

(* one iteration of "for page in range(start, end + 1)" *)
ParseRangePage(p) ==
    /\ frames[p].at = "range"
    /\ LET f == frames[p]
       IN  frames' =
             IF f.page > f.end
             THEN [frames EXCEPT ![p].i = f.i + 1, ![p].at = "parts"]
             ELSE IF f.page > f.total
             THEN Raise(frames, p, PageSpecError("exceeds", <<>>, f.page, f.total))
             ELSE [StorePages(frames, p, f.pages \cup {f.page}) EXCEPT
                     ![p].page = f.page + 1]
    /\ UNCHANGED <<spec, total_pages, mode, outcome, pc, httpVars, rateVars>>

(* "if not pages" and "return sorted(pages)"; in pages_to_keep the list
   becomes specified_pages *)
ParseReturn(p) ==
    /\ frames[p].at = "end_parts"
    /\ LET f == frames[p]
       IN  frames' =
             IF f.pages = {}
             THEN Raise(frames, p, PageSpecError("no_pages", <<>>, 0, 0))
             ELSE IF f.fn = "parse"
             THEN [frames EXCEPT ![p].at = "done",
                                 ![p].result = Returned(sorted(f.pages))]
             ELSE [frames EXCEPT ![p].at = "mode",
                                 ![p].specified = sorted(f.pages)]
    /\ UNCHANGED <<spec, total_pages, mode, outcome, pc, httpVars, rateVars>>

(* the mode branches of pages_to_keep *)
KeepMode(p) ==
    /\ frames[p].at = "mode"
    /\ frames' =
         [frames EXCEPT ![p].at = "done",
                        ![p].result = mode_branch(frames[p].specified,
                                                  frames[p].total, frames[p].mode)]
    /\ UNCHANGED <<spec, total_pages, mode, outcome, pc, httpVars, rateVars>>

NextConc ==
    \E p \in Procs :
        \/ ParseStart(p)
        \/ ParseNextPart(p)
        \/ ParseRangePage(p)
        \/ ParseReturn(p)
        \/ KeepMode(p)

SpecConc == InitConc /\ [][NextConc]_vars

(* ---- what a specification names, read off its text ---- *)

(* the non-empty tokens, in order: comma-separated pieces without their
   surrounding whitespace *)
Tokens(s) ==
    LET pieces == split(s, ",")
    IN  SelectSeq([i \in 1..Len(pieces) |-> strip(pieces[i])], LAMBDA t : t # <<>>)

HyphenAt(t) == {i \in 1..Len(t) : t[i] = "-"}
LeftSide(t) == SubSeq(t, 1, SetMin(HyphenAt(t)) - 1)
RightSide(t) == SubSeq(t, SetMin(HyphenAt(t)) + 1, Len(t))

(* the pages a well-formed token names, in the order it names them *)
TokenList(t) ==
    IF HyphenAt(t) = {} THEN <<int(t)>>
    ELSE LET lo == int(LeftSide(t))
             hi == int(RightSide(t))
         IN  [k \in 1..(hi - lo + 1) |-> lo + k - 1]

TokenPages(t) == SeqSet(TokenList(t))

NamedPages(s) == UNION {TokenPages(Tokens(s)[i]) : i \in 1..Len(Tokens(s))}

RECURSIVE Flatten(_)
Flatten(lists) ==
    IF lists = <<>> THEN <<>> ELSE Head(lists) \o Flatten(Tail(lists))

(* every page named, token after token, repetitions included *)
NamedList(s) == Flatten([i \in 1..Len(Tokens(s)) |-> TokenList(Tokens(s)[i])])

(* a list without the later repetitions of a value *)
FirstOccurrences(list) ==
    SelectSeq([i \in 1..Len(list) |->
                  IF \E j \in 1..(i - 1) : list[j] = list[i] THEN 0 ELSE list[i]],
              LAMBDA v : v # 0)

Ascending(list) == \A i \in 1..(Len(list) - 1) : list[i] < list[i + 1]
NoDuplicates(list) == \A i, j \in 1..Len(list) : i # j => list[i] # list[j]

Called == pc \in {"parsed", "kept"}

(* C1: a list returned by parse_pagespec or by pages_to_keep is non-empty,
   has no duplicate values and lies within 1..total_pages; no call with
   total_pages = 0 returns *)
C1_ReturnedListValid ==
    (Called /\ outcome.kind = "ok") =>
        /\ Len(outcome.pages) >= 1
        /\ NoDuplicates(outcome.pages)
        /\ \A i \in 1..Len(outcome.pages) :
              1 <= outcome.pages[i] /\ outcome.pages[i] <= total_pages
        /\ total_pages # 0

C1_Witness ==
    /\ pc = "kept" /\ mode = "delete" /\ outcome.kind = "ok"
    /\ Len(outcome.pages) = 2 /\ Len(Tokens(spec)) = 2

(* C2: for a spec that passes validation parse_pagespec returns the union of
   the pages named by its non-empty tokens, each once, in ascending order *)
C2_ParseIsUnionAscending ==
    (pc = "parsed" /\ outcome.kind = "ok") =>
        /\ SeqSet(outcome.pages) = NamedPages(spec)
        /\ Len(outcome.pages) = Cardinality(NamedPages(spec))
        /\ Ascending(outcome.pages)

C2_Witness ==
    /\ pc = "parsed" /\ outcome.kind = "ok"
    /\ spec = <<"1", "-", "2", ",">>
    /\ outcome.pages = <<1, 2>>

C2_WitnessOverlap ==
    /\ pc = "parsed" /\ outcome.kind = "ok"
    /\ spec = <<"2", ",", "2">>
    /\ outcome.pages = <<2>>

C2_WitnessOrder ==
    /\ pc = "parsed" /\ outcome.kind = "ok"
    /\ spec = <<"2", ",", "1">>
    /\ outcome.pages = <<1, 2>>

(* C3: in delete mode, for a spec that parses, naming all of 1..total_pages
   fails with "cannot delete all pages"; otherwise the result is the
   ascending list of exactly the pages that the spec does not name *)
C3_DeleteKeepsComplement ==
    (pc = "kept" /\ mode = "delete" /\ parse_pagespec(spec, total_pages).kind = "ok") =>
        IF NamedPages(spec) = 1..total_pages
        THEN outcome = PageSpecError("delete_all", <<>>, 0, 0)
        ELSE /\ outcome.kind = "ok"
             /\ Ascending(outcome.pages)
             /\ SeqSet(outcome.pages) \cap NamedPages(spec) = {}
             /\ SeqSet(outcome.pages) \cup NamedPages(spec) = 1..total_pages

C3_Witness ==
    /\ pc = "kept" /\ mode = "delete"
    /\ spec = <<"2">> /\ total_pages = 3
    /\ outcome.pages = <<1, 3>>

C3_WitnessDeleteAll ==
    /\ pc = "kept" /\ mode = "delete"
    /\ NamedPages(spec) = 1..total_pages /\ total_pages = 2
    /\ outcome.rule = "delete_all"

ExtractReturned == pc = "kept" /\ mode = "extract" /\ outcome.kind = "ok"

(* C4 as stated: in extract mode the keep-list lists the distinct named
   pages in the order in which each is first named *)
C4_ExtractFirstOccurrenceOrder ==
    ExtractReturned => outcome.pages = FirstOccurrences(NamedList(spec))

(* C4 amended: in extract mode the keep-list holds exactly the distinct
   named pages, each once, in ascending numeric order, whatever the order in
   which the spec first names them *)
C4_ExtractAscendingOfNamed ==
    ExtractReturned =>
        /\ SeqSet(outcome.pages) = SeqSet(FirstOccurrences(NamedList(spec)))
        /\ Len(outcome.pages) = Len(FirstOccurrences(NamedList(spec)))
        /\ Ascending(outcome.pages)

C4_Witness ==
    /\ ExtractReturned
    /\ FirstOccurrences(NamedList(spec)) = <<2, 1>>
    /\ outcome.pages = <<1, 2>>

(* C5: in extract mode pages_to_keep has the outcome of parse_pagespec on
   the same inputs: the same error, or the same list, which is ascending *)
C5_ExtractSameAsParse ==
    (pc = "kept" /\ mode = "extract") =>
        /\ outcome = parse_pagespec(spec, total_pages)
        /\ outcome.kind \in {"ok", "PageSpecError"}
        /\ outcome.kind = "ok" => Ascending(outcome.pages)

C5_Witness ==
    /\ pc = "kept" /\ mode = "extract"
    /\ spec = <<"2", ",", "0">> /\ total_pages = 2
    /\ outcome.rule = "page_positive"

C5_WitnessOrder ==
    /\ pc = "kept" /\ mode = "extract"
    /\ spec = <<"2", ",", "1">>
    /\ outcome.pages = <<1, 2>>

UnknownMode == pc = "kept" /\ mode \notin {"extract", "delete"}

(* C6 as stated: with a mode other than extract or delete pages_to_keep
   fails with ValueError, also when the spec is malformed or out of range *)
C6_UnknownModeAlwaysValueError ==
    UnknownMode => outcome.kind = "ValueError"

(* C6 amended: with a mode other than extract or delete pages_to_keep fails
   with ValueError when the spec parses against total_pages, and with the
   PageSpecError of parse_pagespec when it does not *)
C6_UnknownModeAfterParse ==
    UnknownMode =>
        IF parse_pagespec(spec, total_pages).kind = "ok"
        THEN outcome.kind = "ValueError"
        ELSE /\ outcome.kind = "PageSpecError"
             /\ outcome = parse_pagespec(spec, total_pages)

C6_Witness ==
    /\ UnknownMode
    /\ spec = <<"1", "-", "2">> /\ total_pages = 2
    /\ outcome.kind = "ValueError"

C6_WitnessMalformed ==
    /\ UnknownMode
    /\ spec = <<"1", "-">>
    /\ outcome.rule = "range_format"

OnlyCommasAndSpaces(s) == \A i \in 1..Len(s) : s[i] \in {",", " "}

(* C7: an empty or whitespace-only spec fails with "empty specification";
   "no valid pages found" is raised exactly for the specs made of commas and
   whitespace only, with at least one comma *)
C7_EmptyAndNoPages ==
    pc = "parsed" =>
        /\ (\A i \in 1..Len(spec) : spec[i] = " ") =>
              outcome = PageSpecError("empty", <<>>, 0, 0)
        /\ outcome = PageSpecError("no_pages", <<>>, 0, 0) <=>
              (OnlyCommasAndSpaces(spec) /\ Contains(spec, ","))
        /\ outcome.rule = "no_pages" => outcome.kind = "PageSpecError"

C7_Witness ==
    /\ pc = "parsed"
    /\ spec = <<" ", ",", " ", ",">>
    /\ outcome.rule = "no_pages"

C7_WitnessEmpty ==
    /\ pc = "parsed"
    /\ spec = <<" ", " ">>
    /\ outcome.rule = "empty"

(* ---- empty tokens and surrounding whitespace ---- *)

Insert(s, i, c) == SubSeq(s, 1, i) \o <<c>> \o SubSeq(s, i + 1, Len(s))

AllSpaces(s) == \A k \in 1..Len(s) : s[k] = " "

(* text from position i back to the previous comma or the start, and on to
   the next comma or the end *)
BeforeGap(s, i) ==
    LET cs == {k \in 1..i : s[k] = ","}
    IN  SubSeq(s, IF cs = {} THEN 1 ELSE SetMax(cs) + 1, i)
AfterGap(s, i) ==
    LET cs == {k \in (i + 1)..Len(s) : s[k] = ","}
    IN  SubSeq(s, i + 1, IF cs = {} THEN Len(s) ELSE SetMin(cs) - 1)

(* a comma put after position i is a leading, trailing or consecutive one:
   it only adds an empty token *)
CommaAddsEmptyToken(s, i) == AllSpaces(BeforeGap(s, i)) \/ AllSpaces(AfterGap(s, i))

(* a space put after position i is around a number, a comma or a hyphen, or
   around the whole spec; a number is a run of digits with the plus sign
   written before it, and the space is never inside one *)
SpaceIsAround(s, i) ==
    LET l == IF i >= 1 THEN s[i] ELSE ","
        r == IF i < Len(s) THEN s[i + 1] ELSE ","
    IN  /\ ~(l \in Digits \cup {"+"} /\ r \in Digits)
        /\ l \in Digits \cup {",", "-"} \/ r \in Digits \cup {",", "-", "+"}

Variants(s) ==
    {Insert(s, i, ",") : i \in {k \in 0..Len(s) : CommaAddsEmptyToken(s, k)}}
    \cup {Insert(s, i, " ") : i \in {k \in 0..Len(s) : SpaceIsAround(s, k)}}

(* the same result list, or the same error up to the quoted token text *)
SameResult(o1, o2) ==
    /\ o1.kind = o2.kind /\ o1.rule = o2.rule
    /\ o1.pages = o2.pages /\ o1.a = o2.a /\ o1.b = o2.b

(* C8: for a spec with at least one non-empty token, one more leading,
   trailing or consecutive comma, or one more space around a number, comma
   or hyphen, leaves the outcome of parse_pagespec unchanged *)
C8_EmptyTokensAndSpacesIgnored ==
    (pc = "parsed" /\ Tokens(spec) # <<>>) =>
        \A v \in Variants(spec) :
            SameResult(parse_pagespec(v, total_pages), outcome)

C8_Witness ==
    /\ pc = "parsed"
    /\ spec = <<",", "1", "-", "2">>
    /\ outcome.pages = <<1, 2>>
    /\ <<",", "1", " ", "-", "2">> \in Variants(spec)
    /\ <<",", ",", "1", "-", "2">> \in Variants(spec)
    /\ <<",", "1", "-", "2", ",">> \in Variants(spec)

(* ---- malformed ranges ---- *)

(* a token with a hyphen that is not two non-empty sides around one hyphen *)
MalformedRange(t) ==
    /\ HyphenAt(t) # {}
    /\ \/ Cardinality(HyphenAt(t)) # 1
       \/ strip(LeftSide(t)) = <<>>
       \/ strip(RightSide(t)) = <<>>

(* digits, with or without a plus sign before them *)
IsNumeral(t) ==
    LET d == IF t # <<>> /\ t[1] = "+" THEN Tail(t) ELSE t
    IN  d # <<>> /\ \A k \in 1..Len(d) : d[k] \in Digits

(* a token that by itself breaks no rule against total *)
TokenAccepted(t, total) ==
    IF HyphenAt(t) = {}
    THEN IsNumeral(t) /\ 1 <= int(t) /\ int(t) <= total
    ELSE /\ ~MalformedRange(t)
         /\ IsNumeral(strip(LeftSide(t))) /\ IsNumeral(strip(RightSide(t)))
         /\ 1 <= int(LeftSide(t)) /\ int(LeftSide(t)) <= int(RightSide(t))
         /\ int(RightSide(t)) <= total

(* a numeral of value zero stands alone or as a side of a range *)
NamesZero(t) ==
    \/ IsNumeral(t) /\ int(t) = 0
    \/ /\ Cardinality(HyphenAt(t)) = 1
       /\ \/ IsNumeral(strip(LeftSide(t))) /\ int(LeftSide(t)) = 0
          \/ IsNumeral(strip(RightSide(t))) /\ int(RightSide(t)) = 0

NonPositiveRules == {"page_positive", "range_positive"}

(* C9 as stated: a spec with a malformed range token fails with "invalid
   range format", for every total_pages *)
C9_MalformedRangeAlwaysRangeFormat ==
    (pc = "parsed" /\ \E k \in 1..Len(Tokens(spec)) : MalformedRange(Tokens(spec)[k])) =>
        outcome.rule = "range_format"

(* C9 amended: a malformed range token makes parse_pagespec fail with
   "invalid range format" whenever every token before it is accepted; a
   negative number is such a token; the non-positive errors arise only
   from a token that names zero *)
C9_MalformedRangeAfterAcceptedTokens ==
    pc = "parsed" =>
        /\ \A k \in 1..Len(Tokens(spec)) :
              (/\ MalformedRange(Tokens(spec)[k])
               /\ \A j \in 1..(k - 1) : TokenAccepted(Tokens(spec)[j], total_pages))
              => (outcome.kind = "PageSpecError" /\ outcome.rule = "range_format")
        /\ outcome.rule \in NonPositiveRules =>
              \E k \in 1..Len(Tokens(spec)) : NamesZero(Tokens(spec)[k])

C9_Witness ==
    /\ pc = "parsed"
    /\ spec = <<"1", ",", "-", "2">> /\ total_pages = 2
    /\ outcome.rule = "range_format"

C9_WitnessZero ==
    /\ pc = "parsed"
    /\ spec = <<"0", "-", "2">>
    /\ outcome.rule = "range_positive"

(* ---- the error reported when several rules are broken ---- *)

Max(x, y) == IF x >= y THEN x ELSE y

(* the first rule a range token breaks, in the order: range format, numeric
   sides, both bounds positive, start <= end, pages against total *)
RangeDefect(t, total) ==
    LET lo == strip(LeftSide(t))
        hi == strip(RightSide(t))
    IN  IF MalformedRange(t) THEN PageSpecError("range_format", t, 0, 0)
        ELSE IF ~IsNumeral(lo) \/ ~IsNumeral(hi) THEN PageSpecError("range_numbers", t, 0, 0)
        ELSE IF int(lo) <= 0 \/ int(hi) <= 0 THEN PageSpecError("range_positive", t, 0, 0)
        ELSE IF int(lo) > int(hi) THEN PageSpecError("range_order", <<>>, int(lo), int(hi))
        ELSE IF int(hi) > total
        THEN PageSpecError("exceeds", <<>>, Max(int(lo), total + 1), total)
        ELSE NoOutcome

(* the first rule a token without a hyphen breaks *)
SingleDefect(t, total) ==
    IF ~IsNumeral(t) THEN PageSpecError("page_number", t, 0, 0)
    ELSE IF int(t) <= 0 THEN PageSpecError("page_positive", <<>>, int(t), 0)
    ELSE IF int(t) > total THEN PageSpecError("exceeds", <<>>, int(t), total)
    ELSE NoOutcome

(* the error of a token taken by itself, NoOutcome when it breaks no rule *)
Defect(t, total) ==
    IF HyphenAt(t) = {} THEN SingleDefect(t, total) ELSE RangeDefect(t, total)

Defective(s, total) == {k \in 1..Len(Tokens(s)) : Defect(Tokens(s)[k], total) # NoOutcome}

(* the rules a token breaks, each taken on its own *)
BreaksPositive(t) ==
    /\ Cardinality(HyphenAt(t)) = 1
    /\ IsNumeral(strip(LeftSide(t))) /\ IsNumeral(strip(RightSide(t)))
    /\ (int(LeftSide(t)) <= 0 \/ int(RightSide(t)) <= 0)
BreaksOrder(t) ==
    /\ Cardinality(HyphenAt(t)) = 1
    /\ IsNumeral(strip(LeftSide(t))) /\ IsNumeral(strip(RightSide(t)))
    /\ int(LeftSide(t)) > int(RightSide(t))
BreaksTotal(t, total) ==
    /\ Cardinality(HyphenAt(t)) = 1
    /\ IsNumeral(strip(LeftSide(t))) /\ IsNumeral(strip(RightSide(t)))
    /\ int(RightSide(t)) > total

(* C12: parse_pagespec reports the error of the first token that breaks a
   rule, and of that token the first rule broken in the order range format,
   numeric sides, positive bounds, start <= end, pages against total_pages:
   a range with a non-positive bound reports that even when start > end, a
   range with positive start > end reports the order even when it exceeds
   total_pages, a range 1 <= start <= end with end > total_pages reports page
   max(start, total_pages + 1), and a token is accepted exactly when it has
   no such error *)
C12_FirstViolationReported ==
    pc = "parsed" =>
        /\ Defective(spec, total_pages) # {} =>
              outcome = Defect(Tokens(spec)[SetMin(Defective(spec, total_pages))], total_pages)
        /\ \A k \in 1..Len(Tokens(spec)) :
              TokenAccepted(Tokens(spec)[k], total_pages)
                  <=> k \notin Defective(spec, total_pages)
        /\ \A k \in 1..Len(Tokens(spec)) :
              (\A j \in 1..(k - 1) : TokenAccepted(Tokens(spec)[j], total_pages)) =>
                  /\ BreaksPositive(Tokens(spec)[k]) => outcome.rule = "range_positive"
                  /\ (BreaksOrder(Tokens(spec)[k]) /\ ~BreaksPositive(Tokens(spec)[k])) =>
                        /\ outcome.rule = "range_order"
                        /\ outcome.a = int(LeftSide(Tokens(spec)[k]))
                        /\ outcome.b = int(RightSide(Tokens(spec)[k]))
                  /\ (/\ BreaksTotal(Tokens(spec)[k], total_pages)
                      /\ ~BreaksOrder(Tokens(spec)[k]) /\ ~BreaksPositive(Tokens(spec)[k])) =>
                        /\ outcome.rule = "exceeds"
                        /\ outcome.a = Max(int(LeftSide(Tokens(spec)[k])), total_pages + 1)
                        /\ outcome.b = total_pages

(* start > end and both bounds beyond total_pages: the order is reported *)
C12_Witness ==
    /\ pc = "parsed"
    /\ spec = <<"2", "-", "1">> /\ total_pages = 0
    /\ BreaksOrder(spec) /\ BreaksTotal(spec, total_pages)
    /\ outcome.rule = "range_order"

(* a non-positive bound and start > end: the sign is reported *)
C12_WitnessPositive ==
    /\ pc = "parsed"
    /\ spec = <<"2", "-", "0">>
    /\ BreaksPositive(spec) /\ BreaksOrder(spec)
    /\ outcome.rule = "range_positive"

(* the range is expanded from start: the first page beyond total_pages *)
C12_WitnessPage ==
    /\ pc = "parsed"
    /\ spec = <<"1", "-", "2">> /\ total_pages = 1
    /\ outcome.rule = "exceeds" /\ outcome.a = 2

(* two defective tokens: the error of the first one *)
C12_WitnessEarlier ==
    /\ pc = "parsed"
    /\ spec = <<"0", ",", "x">>
    /\ Defective(spec, total_pages) = {1, 2}
    /\ outcome.rule = "page_positive"

(* ---- interleaved invocations ---- *)

(* the outcome of the invocation run alone *)
Alone(f) ==
    IF f.fn = "parse" THEN parse_pagespec(f.spec, f.total)
    ELSE pages_to_keep(f.spec, f.total, f.mode)

SameInputs(f, g) ==
    f.fn = g.fn /\ f.spec = g.spec /\ f.total = g.total /\ f.mode = g.mode

(* C10: an invocation that runs interleaved with others ends with the
   outcome it has when run alone, so that invocations with the same inputs
   end with the same outcome *)
C10_InterleavedAsAlone ==
    \A p \in DOMAIN frames :
        frames[p].at = "done" =>
            /\ frames[p].result = Alone(frames[p])
            /\ \A q \in DOMAIN frames :
                  (frames[q].at = "done" /\ SameInputs(frames[p], frames[q]))
                  => frames[q].result = frames[p].result

C10_Witness ==
    /\ DOMAIN frames # {}
    /\ \A p \in DOMAIN frames : frames[p].at = "done"
    /\ frames[1].spec = <<"2", ",", "1">> /\ frames[1].total = 2
    /\ frames[1].fn = "parse" /\ frames[1].result.pages = <<1, 2>>
    /\ frames[2].spec = <<"1", "-", "2">> /\ frames[2].total = 1
    /\ frames[2].result.rule = "exceeds"

(* ---- the endpoints ---- *)

Responded == pc = "responded"
UploadOpens == outcome.rule \in {"opens", "unwritable"}

(* C11: for an upload that opens, every validation error of the page-spec
   resolver reaches the client as a 400 whose detail is the error itself,
   never as a 422 or a 500 *)
C11_SpecErrorIs400 ==
    (/\ Responded /\ UploadOpens
     /\ pages_to_keep(spec, total_pages, mode).kind = "PageSpecError") =>
        /\ response.exc = "HTTPException"
        /\ response.status = 400
        /\ response.detail = pages_to_keep(spec, total_pages, mode)
        /\ response.detail.kind = "PageSpecError"

C11_Witness ==
    /\ Responded /\ outcome.rule = "unwritable" /\ mode = "delete"
    /\ spec = <<"1", "-", "2">> /\ total_pages = 2
    /\ response.status = 400
    /\ response.detail.rule = "delete_all"

(* ---- the rate limiter ---- *)

(* how many of the timestamps lie in the window (t - RATE_WINDOW, t] *)
InWindow(list, t) ==
    Cardinality({i \in 1..Len(list) : t - RATE_WINDOW < list[i] /\ list[i] <= t})

CountOf(list, t) == Cardinality({i \in 1..Len(list) : list[i] = t})

(* no window holds more than RATE_LIMIT admitted calls of a client; it is
   enough to look at the windows that end at an admitted call *)
WindowBound ==
    \A c \in Clients : \A i \in 1..Len(admitted[c]) :
        InWindow(admitted[c], admitted[c][i]) <= RATE_LIMIT

(* what one call does: a rejected call records nothing, the lists of the
   other clients stay as they are, and the call is admitted exactly when the
   client's own admitted calls of the window ending now are below the limit *)
CallEffect ==
    calls' = calls + 1 =>
        /\ last'.result = FALSE =>
              /\ CountOf(Tracked(rate_tracker', last'.client), now')
                    = CountOf(Tracked(rate_tracker, last'.client), now')
              /\ Len(Tracked(rate_tracker', last'.client))
                    <= Len(Tracked(rate_tracker, last'.client))
              /\ admitted' = admitted
        /\ last'.result = TRUE =>
              CountOf(Tracked(rate_tracker', last'.client), now')
                  = CountOf(Tracked(rate_tracker, last'.client), now') + 1
        /\ \A d \in Clients \ {last'.client} :
              /\ Tracked(rate_tracker', d) = Tracked(rate_tracker, d)
              /\ admitted'[d] = admitted[d]
        /\ last'.result = (InWindow(admitted[last'.client], now') < RATE_LIMIT)

(* C13: with a clock that never goes back, no window (t - 3600, t] holds
   more than 30 admitted calls of one client, a rejected call records no
   timestamp, and a call changes nothing for the other clients: whether a
   call is admitted depends on the caller's own admitted calls only *)
C13_RateLimitPerClient == []WindowBound /\ [][CallEffect]_vars

(* a call rejected at the limit while the other client has calls on record *)
C13_Witness ==
    /\ pc = "limiter"
    /\ last.client = "a" /\ last.result = FALSE /\ last.at > 0
    /\ InWindow(admitted["a"], now) = RATE_LIMIT
    /\ Len(Tracked(rate_tracker, "b")) = RATE_LIMIT - 1

(* a call admitted once the window has passed: 31 admitted calls in all *)
C13_WitnessExpired ==
    /\ pc = "limiter"
    /\ last.client = "a" /\ last.result = TRUE /\ last.at = RATE_WINDOW
    /\ Len(admitted["a"]) = RATE_LIMIT + 1
    /\ Len(Tracked(rate_tracker, "a")) = 1
====
